---- MODULE Spec2Model ----
(***************************************************************************)
(* PawPal+ planning engine (pawpal_system.py): Task, Owner, Pet and        *)
(* Scheduler, with the callers' patterns of main.py and app.py.            *)
(*                                                                         *)
(* Times of day (datetime.time) are seconds since midnight, 0..86399.      *)
(* Task objects live in a heap `tasks` (a sequence); a reference to a Task *)
(* is its index in the heap, so the same object can sit in several lists.  *)
(* Scores are floats in the source but always whole numbers (priority*10,  *)
(* +5, -100, -50), so integers carry them exactly.                         *)
(***************************************************************************)
EXTENDS Integers, Sequences, FiniteSets, TLC

VARIABLES tasks, owner, pets, scheduler, today, ret, calls

vars == <<tasks, owner, pets, scheduler, today, ret, calls>>

----------------------------------------------------------------------------
(* Bounds of the model *)

MaxTasks == 2
MaxEvents == 3
MaxSortLen == 3
\* Task objects ever created, where mark_complete or the caller creates more
MaxHeap == 2
\* Task objects ever created where mark_complete is looked at on its own
MaxRecur == 4
\* longest list ranked where rank_tasks is looked at on its own
MaxRankLen == 2
\* largest n of '<n>x-day' where expand_occurrences is looked at on its own
MaxSlots == 12
\* longest nominal duration where adjust_duration is looked at on its own
MaxDuration == 30

----------------------------------------------------------------------------
(* Python values *)

\* Optional[TimeRange] = None
NoWindow == <<>>
\* Optional[Time] = None, Optional[date] = None
NoTime == -1
NoDate == -1

MinutesPerDay == 24 * 60
SecondsPerDay == MinutesPerDay * 60

\* str values that the code takes apart (Task.frequency) are sequences of
\* characters
Daily == <<"d", "a", "i", "l", "y">>
Weekly == <<"w", "e", "e", "k", "l", "y">>
Once == <<"o", "n", "c", "e">>
XDay == <<"x", "-", "d", "a", "y">>

\* datetime.time(h, m, s), datetime.time(h, m), and the attributes hour and
\* minute of a time
TS(h, m, s) == (h * 60 + m) * 60 + s
T(h, m) == TS(h, m, 0)
Hour(t) == t \div 3600
Minute(t) == (t \div 60) % 60

Max(a, b) == IF a >= b THEN a ELSE b
Min(a, b) == IF a <= b THEN a ELSE b

\* datetime.combine(today, start) + timedelta(minutes = d), then .time():
\* the date part of the sum is dropped, so the time of day wraps at 24:00.
AddMinutes(start, d) == (start + d * 60) % SecondsPerDay

\* datetime.date.today().weekday(), Monday = 0; day 0 of the model is a Monday
Weekday(day) == day % 7

RECURSIVE SumSeq(_)
SumSeq(s) == IF s = <<>> THEN 0 ELSE Head(s) + SumSeq(Tail(s))

Range(s) == {s[i] : i \in DOMAIN s}

----------------------------------------------------------------------------
(* Owner *)

\* Owner.available_minutes
available_minutes(o) == o.daily_time_available

\* Owner.allows; p.get(flag) is truthy iff the flag is in o.preferences
allows(o, task, day) ==
    LET p == o.preferences
        t_end == IF task.preferred_window # NoWindow THEN task.preferred_window[2]
                 ELSE IF task.deadline_time # NoTime THEN task.deadline_time
                 ELSE NoTime
    IN IF "no_grooming_weekdays" \in p /\ task.category = "grooming" /\ Weekday(day) < 5
       THEN FALSE
       ELSE IF /\ "avoid_late_walks" \in p
               /\ task.category = "walk"
               /\ t_end # NoTime
               /\ (Hour(t_end) > 21 \/ (Hour(t_end) = 21 /\ Minute(t_end) > 30))
       THEN FALSE
       ELSE TRUE

RECURSIVE overlaps_of(_, _)
\* the loop of Owner.window_options: intersections with the task's window,
\* in the order of the owner's windows
overlaps_of(ows, pw) ==
    IF ows = <<>> THEN <<>>
    ELSE LET ow == Head(ows)
             start == Max(ow[1], pw[1])
             end == Min(ow[2], pw[2])
         IN (IF start < end THEN <<<<start, end>>>> ELSE <<>>) \o overlaps_of(Tail(ows), pw)

\* Owner.window_options
window_options(o, task) ==
    IF task.preferred_window = NoWindow THEN o.preferred_windows
    ELSE overlaps_of(o.preferred_windows, task.preferred_window)

----------------------------------------------------------------------------
(* Pet *)

\* Durations d in 1..1440 for which the float product d * (1.0 * 0.7 * 0.8),
\* i.e. d * 0.5599999999999999, lies just below the whole number d * 14 / 25
FloatShortSeniorLow ==
    {25, 50, 75, 100, 125, 150, 175, 200, 225, 250, 275, 300, 325, 350, 375,
     400, 425, 450, 500, 525, 550, 575, 600, 625, 650, 675, 700, 725, 750,
     775, 800, 825, 850, 875, 900, 1000, 1025, 1050, 1075, 1100, 1125, 1150,
     1175, 1200, 1225, 1250, 1275, 1300, 1325, 1350, 1375, 1400, 1425}

\* Durations d in 1..1440 for which the float product d * 0.7 lies just below
\* the whole number d * 7 / 10
FloatShortSeniorMed ==
    {90, 170, 180, 330, 340, 350, 360, 650, 660, 670, 680, 690, 700, 710, 720,
     730, 1290, 1300, 1310, 1320, 1330, 1340, 1350, 1360, 1370, 1380, 1390,
     1400, 1410, 1420, 1430, 1440}

\* int(duration * factor) of Pet.adjust_duration, factor being the float
\* product 1.0 [* 0.7] [* 0.8 | * 1.1]; exact for durations up to 1440
int_times_factor(pet, d) ==
    LET senior == pet.age_years >= 8
        level == pet.activity_level
        num == (IF senior THEN 7 ELSE 10) *
               (IF level = "low" THEN 8 ELSE IF level = "high" THEN 11 ELSE 10)
        a == IF d < 0 THEN -d ELSE d
        exact == (a * num) \div 100
        short == \/ senior /\ level = "low" /\ a \in FloatShortSeniorLow
                 \/ senior /\ level \notin {"low", "high"} /\ a \in FloatShortSeniorMed
        magnitude == IF short THEN exact - 1 ELSE exact
    IN IF d < 0 THEN -magnitude ELSE magnitude

\* Pet.adjust_duration as a mutation would have it: the age not looked at
adjust_duration_ageless(pet, task) ==
    Max(1, int_times_factor([pet EXCEPT !.age_years = 0], task.duration))

\* Pet.adjust_duration
adjust_duration(pet, task) == Max(1, int_times_factor(pet, task.duration))

\* Pet.is_task_recommended (species already lower case in the model)
is_task_recommended(pet, task) ==
    IF task.category = "walk" THEN pet.species = "dog" ELSE TRUE

----------------------------------------------------------------------------
(* Task *)

\* Task.score as a mutation would have it: the pet's penalty as small as the
\* deadline's bonus
score_small_penalty(task, o, pet, day) ==
    LET base == task.priority * 10
        s1 == IF task.deadline_time # NoTime THEN base + 5 ELSE base
        s2 == IF ~allows(o, task, day) THEN s1 - 100 ELSE s1
        s3 == IF ~is_task_recommended(pet, task) THEN s2 - 5 ELSE s2
    IN s3

\* Task.score
score(task, o, pet, day) ==
    LET base == task.priority * 10
        s1 == IF task.deadline_time # NoTime THEN base + 5 ELSE base
        s2 == IF ~allows(o, task, day) THEN s1 - 100 ELSE s1
        s3 == IF ~is_task_recommended(pet, task) THEN s2 - 50 ELSE s2
    IN s3

\* Task.is_feasible
is_feasible(task, remaining_minutes) ==
    task.enabled /\ task.duration <= remaining_minutes

\* delta_days of Task.mark_complete as a mutation would have it: one day for
\* every recurring task
delta_days_one(frequency) == 1

\* delta_days of Task.mark_complete
delta_days(frequency) == IF frequency = Daily THEN 1 ELSE 7

\* Task.mark_complete as a mutation would have it: create_next ignored
mark_complete_always_next(h, i, create_next, day) ==
    LET self == [h[i] EXCEPT !.completed = TRUE]
        h1 == [h EXCEPT ![i] = self]
        next_date == day + delta_days(self.frequency)
        new_task == [self EXCEPT !.task_id = self.task_id \o <<next_date>>,
                                 !.completed = FALSE,
                                 !.due_date = next_date]
    IN IF self.frequency \notin {Daily, Weekly} THEN [heap |-> h1, new |-> <<>>]
       ELSE [heap |-> Append(h1, new_task), new |-> <<Len(h1) + 1>>]

\* Task.mark_complete as a mutation would have it: the flag toggled
mark_complete_toggle(h, i, create_next, day) ==
    LET self == [h[i] EXCEPT !.completed = ~h[i].completed]
        h1 == [h EXCEPT ![i] = self]
        next_date == day + delta_days(self.frequency)
        new_task == [self EXCEPT !.task_id = self.task_id \o <<next_date>>,
                                 !.completed = FALSE,
                                 !.due_date = next_date]
    IN IF ~create_next THEN [heap |-> h1, new |-> <<>>]
       ELSE IF self.frequency \notin {Daily, Weekly} THEN [heap |-> h1, new |-> <<>>]
       ELSE [heap |-> Append(h1, new_task), new |-> <<Len(h1) + 1>>]

\* Task.mark_complete up to the creation of the next occurrence: the heap
\* afterwards and the new Task returned (<<>> for None); the id of the new
\* task, f"{task_id}-next-{date}", is the old id with the date appended
mark_complete(h, i, create_next, day) ==
    LET self == [h[i] EXCEPT !.completed = TRUE]
        h1 == [h EXCEPT ![i] = self]
        next_date == day + delta_days(self.frequency)
        new_task == [self EXCEPT !.task_id = self.task_id \o <<next_date>>,
                                 !.completed = FALSE,
                                 !.due_date = next_date]
    IN IF ~create_next THEN [heap |-> h1, new |-> <<>>]
       ELSE IF self.frequency \notin {Daily, Weekly} THEN [heap |-> h1, new |-> <<>>]
       ELSE [heap |-> Append(h1, new_task), new |-> <<Len(h1) + 1>>]

\* str.endswith
endswith(str, suffix) ==
    /\ Len(str) >= Len(suffix)
    /\ SubSeq(str, Len(str) - Len(suffix) + 1, Len(str)) = suffix

RECURSIVE before_x(_)
\* str.split("x")[0]: the characters before the first "x"
before_x(str) ==
    IF str = <<>> \/ Head(str) = "x" THEN <<>>
    ELSE <<Head(str)>> \o before_x(Tail(str))

DigitChars == <<"0", "1", "2", "3", "4", "5", "6", "7", "8", "9">>

\* str.isdigit, for ASCII text
isdigit(str) == str # <<>> /\ \A k \in DOMAIN str : str[k] \in Range(DigitChars)

RECURSIVE int_of(_)
\* int(str) of a string of digits
int_of(str) ==
    IF str = <<>> THEN 0
    ELSE int_of(SubSeq(str, 1, Len(str) - 1)) * 10
         + ((CHOOSE d \in DOMAIN DigitChars : DigitChars[d] = str[Len(str)]) - 1)

\* a time of day with seconds and microseconds, as timedelta arithmetic gives
Clock(sec, us) == [sec |-> sec % SecondsPerDay, us |-> us]

\* (end_dt - start_dt) / m for the span 07:00-21:00: a timedelta in seconds
\* and microseconds, rounded half to even to the microsecond
span_over(m) ==
    LET span == (21 - 7) * 3600
        x == (span % m) * 1000000
        fl == x \div m
        rem == x % m
        us == IF 2 * rem > m THEN fl + 1
              ELSE IF 2 * rem = m THEN fl + (fl % 2)
              ELSE fl
    IN [sec |-> (span \div m) + (us \div 1000000), us |-> us % 1000000]

\* (start_dt + delta * k).time()
slot_edge(delta, k) ==
    Clock(7 * 3600 + delta.sec * k + ((delta.us * k) \div 1000000),
          (delta.us * k) % 1000000)

\* Task.expand_occurrences
expand_occurrences(task) ==
    IF task.preferred_window # NoWindow
    THEN << <<Clock(task.preferred_window[1], 0), Clock(task.preferred_window[2], 0)>> >>
    ELSE IF endswith(task.frequency, XDay)
    THEN LET head == before_x(task.frequency)
             n == IF isdigit(head) THEN int_of(head) ELSE 1
             delta == span_over(Max(1, n))
         IN [k \in 1..n |-> <<slot_edge(delta, k - 1), slot_edge(delta, k)>>]
    ELSE <<>>

----------------------------------------------------------------------------
(* Scheduler *)

\* Scheduler.get_score_cached: the score returned and the cache afterwards
get_score_cached(task, o, pet, day, cache) ==
    LET key == task.task_id
    IN IF key \in DOMAIN cache
       THEN [s |-> cache[key], cache |-> cache]
       ELSE LET s == score(task, o, pet, day)
            IN [s |-> s,
                cache |-> [k \in DOMAIN cache \cup {key} |->
                              IF k = key THEN s ELSE cache[k]]]

RECURSIVE score_all(_, _, _, _, _, _)
\* the list comprehension of rank_tasks: pairs (score, task) in input order,
\* the cache threaded through the calls from left to right
score_all(h, list, o, pet, day, cache) ==
    IF list = <<>> THEN [scored |-> <<>>, cache |-> cache]
    ELSE LET r == get_score_cached(h[Head(list)], o, pet, day, cache)
             rest == score_all(h, Tail(list), o, pet, day, r.cache)
         IN [scored |-> <<<<r.s, Head(list)>>>> \o rest.scored, cache |-> rest.cache]

RECURSIVE insert_desc(_, _)
\* list.sort(key, reverse=True) is stable: an element goes after every
\* element whose key is greater than or equal to its own
insert_desc(sorted, x) ==
    IF sorted = <<>> THEN <<x>>
    ELSE IF Head(sorted)[1] >= x[1]
         THEN <<Head(sorted)>> \o insert_desc(Tail(sorted), x)
         ELSE <<x>> \o sorted

RECURSIVE sort_desc(_, _)
sort_desc(acc, rest) ==
    IF rest = <<>> THEN acc
    ELSE sort_desc(insert_desc(acc, Head(rest)), Tail(rest))

RECURSIVE insert_asc(_, _)
\* sorted(key) is stable: an element goes after every element whose key is
\* less than or equal to its own
insert_asc(sorted, x) ==
    IF sorted = <<>> THEN <<x>>
    ELSE IF Head(sorted)[1] <= x[1]
         THEN <<Head(sorted)>> \o insert_asc(Tail(sorted), x)
         ELSE <<x>> \o sorted

RECURSIVE sort_asc(_, _)
sort_asc(acc, rest) ==
    IF rest = <<>> THEN acc
    ELSE sort_asc(insert_asc(acc, Head(rest)), Tail(rest))

Seconds(pairs) == [i \in DOMAIN pairs |-> pairs[i][2]]

\* Scheduler.rank_tasks: the ranked list and the cache afterwards
rank_tasks(h, o, pet, list, day, cache) ==
    LET r == score_all(h, list, o, pet, day, cache)
    IN [out |-> Seconds(sort_desc(<<>>, r.scored)), cache |-> r.cache]

\* task_time as a mutation would have it: the window before the deadline
task_time_window_first(t) ==
    IF t.preferred_window # NoWindow THEN t.preferred_window[1]
    ELSE IF t.deadline_time # NoTime THEN t.deadline_time
    ELSE T(0, 0)

\* task_time of Scheduler.sort_by_time
task_time(t) ==
    IF t.deadline_time # NoTime THEN t.deadline_time
    ELSE IF t.preferred_window # NoWindow THEN t.preferred_window[1]
    ELSE T(0, 0)

\* Scheduler.sort_by_time
sort_by_time(h, list) ==
    Seconds(sort_asc(<<>>, [i \in DOMAIN list |-> <<task_time(h[list[i]]), list[i]>>]))

RECURSIVE SelectSeq2(_, _, _)
\* the list comprehension of Scheduler.filter_tasks
SelectSeq2(h, list, completed) ==
    IF list = <<>> THEN <<>>
    ELSE (IF h[Head(list)].completed = completed THEN <<Head(list)>> ELSE <<>>)
         \o SelectSeq2(h, Tail(list), completed)

\* Scheduler.filter_tasks; completed is <<>> for None, else <<TRUE>> or <<FALSE>>
filter_tasks(h, list, completed) ==
    IF completed = <<>> THEN list ELSE SelectSeq2(h, list, completed[1])

\* strftime('%H:%M') of a time of day: the hour and the minute
strftime(t) == <<Hour(t), Minute(t)>>

\* the overlap test of Scheduler.detect_conflicts, as a mutation would have
\* it: closed intervals
overlap_closed(a, b) == (a.start <= b.end) /\ (b.start <= a.end)

\* the overlap test of Scheduler.detect_conflicts
overlap(a, b) == (a.start < b.end) /\ (b.start < a.end)

RECURSIVE conflicts_inner(_, _, _)
\* the inner loop of Scheduler.detect_conflicts, for j in range(j, n)
conflicts_inner(events, i, j) ==
    IF j > Len(events) THEN <<>>
    ELSE LET a == events[i]
             b == events[j]
             msg == [pair |-> <<i, j>>,
                     text |-> <<a.pet, a.task, strftime(a.start), strftime(a.end),
                                b.pet, b.task, strftime(b.start), strftime(b.end)>>]
         IN (IF overlap(a, b) THEN <<msg>> ELSE <<>>)
            \o conflicts_inner(events, i, j + 1)

RECURSIVE conflicts_outer(_, _)
\* the outer loop of Scheduler.detect_conflicts, for i in range(i, n)
conflicts_outer(events, i) ==
    IF i > Len(events) THEN <<>>
    ELSE conflicts_inner(events, i, i + 1) \o conflicts_outer(events, i + 1)

\* Scheduler.detect_conflicts: one warning per flagged pair; `pair` records
\* the positions of the two entries the text is about
detect_conflicts(events) == conflicts_outer(events, 1)

\* build_explanations as a mutation would have it: the 'Skipped' line
\* written even when nothing was skipped
build_explanations_always_skipped(h, selected, skipped) ==
    <<[kind |-> "Selected", count |-> Len(selected), task_id |-> <<>>, reason |-> ""]>>
    \o [i \in DOMAIN selected |->
          [kind |-> "-", count |-> 0, task_id |-> h[selected[i]].task_id, reason |-> ""]]
    \o <<[kind |-> "Skipped", count |-> Len(skipped), task_id |-> <<>>, reason |-> ""]>>
    \o [i \in DOMAIN skipped |->
          [kind |-> "-", count |-> 0, task_id |-> h[skipped[i].task].task_id,
           reason |-> skipped[i].reason]]

\* Scheduler.build_explanations; a line f"Selected {k} tasks" or
\* f"Skipped {m} tasks:" is its kind and count, a line f"- {name} ({task_id})"
\* or f"- {name} ({task_id}): {reason}" its task_id and reason
build_explanations(h, selected, skipped) ==
    <<[kind |-> "Selected", count |-> Len(selected), task_id |-> <<>>, reason |-> ""]>>
    \o [i \in DOMAIN selected |->
          [kind |-> "-", count |-> 0, task_id |-> h[selected[i]].task_id, reason |-> ""]]
    \o (IF skipped # <<>>
        THEN <<[kind |-> "Skipped", count |-> Len(skipped), task_id |-> <<>>, reason |-> ""]>>
             \o [i \in DOMAIN skipped |->
                   [kind |-> "-", count |-> 0, task_id |-> h[skipped[i].task].task_id,
                    reason |-> skipped[i].reason]]
        ELSE <<>>)

\* the gates of Scheduler.generate_plan as a mutation would have them: the
\* pet's recommendation left to the score
gate_no_pet(task, o, pet, day, remainder) ==
    IF ~task.enabled THEN "disabled"
    ELSE IF ~allows(o, task, day) THEN "owner preference disallows"
    ELSE IF ~is_feasible(task, remainder) THEN "not enough time remaining"
    ELSE "ok"

\* the gates of Scheduler.generate_plan as a mutation would have them: the
\* owner's preference asked before the enabled flag
gate_owner_first(task, o, pet, day, remainder) ==
    IF ~allows(o, task, day) THEN "owner preference disallows"
    ELSE IF ~task.enabled THEN "disabled"
    ELSE IF ~is_task_recommended(pet, task) THEN "not recommended for pet"
    ELSE IF ~is_feasible(task, remainder) THEN "not enough time remaining"
    ELSE "ok"

\* the gates of Scheduler.generate_plan, in the order of the code: the reason
\* the task is skipped for, or "ok"
gate(task, o, pet, day, remainder) ==
    IF ~task.enabled THEN "disabled"
    ELSE IF ~allows(o, task, day) THEN "owner preference disallows"
    ELSE IF ~is_task_recommended(pet, task) THEN "not recommended for pet"
    ELSE IF ~is_feasible(task, remainder) THEN "not enough time remaining"
    ELSE "ok"

\* the placement as a mutation would have it: the owner's first window
\* whatever the task prefers
place_owner_start(o, task, t_dur) ==
    LET options == o.preferred_windows
        start_time == IF options # <<>> THEN options[1][1] ELSE T(0, 0)
    IN [start |-> start_time, end |-> AddMinutes(start_time, t_dur)]

\* the placement as a mutation would have it: with no option, the start of
\* the task's own window
place_own_window(o, task, t_dur) ==
    LET options == window_options(o, task)
        start_time == IF options # <<>> THEN options[1][1]
                      ELSE IF task.preferred_window # NoWindow THEN task.preferred_window[1]
                      ELSE T(0, 0)
    IN [start |-> start_time, end |-> AddMinutes(start_time, t_dur)]

\* the placement of Scheduler.generate_plan: the first option's start, or
\* 00:00 when there is none, and the end t_dur minutes later
place(o, task, t_dur) ==
    LET options == window_options(o, task)
        start_time == IF options # <<>> THEN options[1][1] ELSE T(0, 0)
    IN [start |-> start_time, end |-> AddMinutes(start_time, t_dur)]

\* the budget update as a mutation would have it: the nominal duration
spend_nominal(remainder, task, t_dur) == remainder - task.duration

\* remainder -= t_dur
spend(remainder, task, t_dur) == remainder - t_dur

RECURSIVE plan_loop_break(_, _, _, _, _, _)
\* the loop of Scheduler.generate_plan as a mutation would have it: break
\* instead of continue once a task does not fit
plan_loop_break(h, o, pet, day, ranked, acc) ==
    IF ranked = <<>> THEN acc
    ELSE LET t == Head(ranked)
             task == h[t]
             t_dur == adjust_duration(pet, task)
             seen == [task |-> t, remainder |-> acc.remainder]
             reason == gate(task, o, pet, day, acc.remainder)
             next ==
                 IF reason # "ok"
                 THEN [acc EXCEPT !.skipped = Append(@, [task |-> t, reason |-> reason]),
                                  !.trace = Append(@, seen)]
                 ELSE LET w == place(o, task, t_dur)
                      IN [acc EXCEPT
                            !.plan_selected = Append(@, [task |-> t, start |-> w.start, end |-> w.end]),
                            !.remainder = spend(@, task, t_dur),
                            !.trace = Append(@, seen)]
         IN IF reason = "not enough time remaining" THEN next
            ELSE plan_loop_break(h, o, pet, day, Tail(ranked), next)

RECURSIVE plan_loop(_, _, _, _, _, _)
\* the loop of Scheduler.generate_plan over the ranked tasks; acc carries the
\* locals plan_selected, skipped and remainder, and trace records for every
\* task considered the remainder at that moment
plan_loop(h, o, pet, day, ranked, acc) ==
    IF ranked = <<>> THEN acc
    ELSE LET t == Head(ranked)
             task == h[t]
             t_dur == adjust_duration(pet, task)
             seen == [task |-> t, remainder |-> acc.remainder]
             reason == gate(task, o, pet, day, acc.remainder)
             next ==
                 IF reason # "ok"
                 THEN [acc EXCEPT !.skipped = Append(@, [task |-> t, reason |-> reason]),
                                  !.trace = Append(@, seen)]
                 ELSE LET w == place(o, task, t_dur)
                      IN [acc EXCEPT
                            !.plan_selected = Append(@, [task |-> t, start |-> w.start, end |-> w.end]),
                            !.remainder = spend(@, task, t_dur),
                            !.trace = Append(@, seen)]
         IN plan_loop(h, o, pet, day, Tail(ranked), next)

\* Scheduler.generate_plan after rank_tasks has returned ranked and left the
\* score cache as cache
plan_ranked(h, o, pet, day, ranked, cache, explain) ==
    LET acc == plan_loop(h, o, pet, day, ranked,
                         [plan_selected |-> <<>>, skipped |-> <<>>,
                          remainder |-> available_minutes(o), trace |-> <<>>])
        selected == [i \in DOMAIN acc.plan_selected |-> acc.plan_selected[i].task]
    IN [scheduled |-> acc.plan_selected,
        skipped |-> acc.skipped,
        total_minutes |-> available_minutes(o) - acc.remainder,
        explanation |-> IF explain
                        THEN build_explanations(h, selected, acc.skipped) ELSE <<>>,
        cache |-> cache,
        ranked |-> ranked,
        remainder |-> acc.remainder,
        trace |-> acc.trace]

\* Scheduler.generate_plan: the plan returned, with the score cache afterwards
\* and the locals ranked, remainder and trace
generate_plan(h, o, pet, list, day, sched) ==
    LET r == rank_tasks(h, o, pet, list, day, sched.score_cache)
    IN plan_ranked(h, o, pet, day, r.out, r.cache, sched.explain)

RECURSIVE select_loop(_, _, _, _, _, _)
\* the loop of Scheduler.select_tasks
select_loop(h, o, pet, day, ranked, acc) ==
    IF ranked = <<>> THEN acc
    ELSE LET t == Head(ranked)
             task == h[t]
             t_dur == adjust_duration(pet, task)
             skip(reason) ==
                 [acc EXCEPT !.skipped = Append(@, [task |-> t, reason |-> reason])]
             next ==
                 IF ~task.enabled THEN skip("disabled")
                 ELSE IF ~allows(o, task, day) THEN skip("owner preference disallows")
                 ELSE IF ~is_task_recommended(pet, task) THEN skip("not recommended for pet")
                 ELSE IF t_dur > acc.remainder THEN skip("not enough time")
                 ELSE [acc EXCEPT !.selected = Append(@, t), !.remainder = @ - t_dur]
         IN select_loop(h, o, pet, day, Tail(ranked), next)

\* Scheduler.select_tasks
select_tasks(h, o, pet, ranked, day) ==
    select_loop(h, o, pet, day, ranked,
                [selected |-> <<>>, skipped |-> <<>>, remainder |-> available_minutes(o)])

----------------------------------------------------------------------------
(* Inputs *)

Pets == {"p1", "p2"}

\* Task(task_id, category, duration, priority, preferred_window, deadline_time,
\*      frequency, enabled, completed, due_date); name and notes play no part
Task(id, category, duration, priority, window, deadline, enabled) ==
    [task_id |-> id, category |-> category, duration |-> duration,
     priority |-> priority, preferred_window |-> window, deadline_time |-> deadline,
     frequency |-> Daily, enabled |-> enabled, completed |-> FALSE,
     due_date |-> NoDate]

\* The tasks a caller may create (task_id filled in on creation)
TaskCatalog ==
    { Task(<<>>, "feed", 10, 4, NoWindow, NoTime, TRUE),
      Task(<<>>, "walk", 30, 5, <<T(7, 30), T(8, 30)>>, NoTime, TRUE),
      Task(<<>>, "walk", 25, 4, <<T(20, 0), T(22, 0)>>, NoTime, TRUE),
      Task(<<>>, "walk", 25, 4, <<T(20, 0), T(22, 0)>>, NoTime, FALSE),
      Task(<<>>, "grooming", 30, 1, NoWindow, NoTime, TRUE),
      Task(<<>>, "meds", 5, 5, NoWindow, T(9, 0), TRUE) }

AvailChoices == {10, 25, 60}

WindowChoices ==
    { <<>>,
      << <<T(7, 0), T(9, 0)>> >>,
      << <<T(23, 30), T(23, 59)>>, <<T(7, 0), T(9, 0)>> >> }

PreferenceChoices == { {}, {"avoid_late_walks", "no_grooming_weekdays"} }

\* a Friday and a Saturday
DayChoices == {4, 5}

DogChoices ==
    { [species |-> "dog", age_years |-> 2, activity_level |-> "med"],
      [species |-> "dog", age_years |-> 5, activity_level |-> "high"] }

CatChoices ==
    { [species |-> "cat", age_years |-> 9, activity_level |-> "low"] }

\* all sequences over S of length 1..n
RECURSIVE SeqsUpTo(_, _)
SeqsUpTo(S, n) ==
    IF n = 0 THEN {}
    ELSE LET shorter == SeqsUpTo(S, n - 1)
         IN {<<x>> : x \in S} \cup shorter \cup {Append(q, x) : q \in shorter, x \in S}

Indices(h) == [i \in DOMAIN h |-> i]

----------------------------------------------------------------------------
(* State *)

NoPlan ==
    [scheduled |-> <<>>, skipped |-> <<>>, total_minutes |-> 0, explanation |-> <<>>,
     cache |-> <<>>, ranked |-> <<>>, remainder |-> 0, trace |-> <<>>]

\* what the last call was and what it returned
Ret(op, pet, input, plan, out, warnings) ==
    [op |-> op, pet |-> pet, input |-> input, plan |-> plan, out |-> out,
     warnings |-> warnings,
     args |-> [owner |-> FALSE, create_next |-> FALSE, before |-> FALSE]]

NoRet == Ret("none", "", <<>>, NoPlan, <<>>, <<>>)

\* the calls of generate_plan that may be in progress at the same time
Callers == {"a", "b"}

\* a call of generate_plan in progress: where it is (pc), the pet planned
\* for, whether the caller constructed a Scheduler of its own and that
\* Scheduler's score_cache, the index i of the task rank_tasks is scoring, the
\* list scored built so far, and the plan returned
NoCall ==
    [pc |-> "idle", pet |-> "", own |-> FALSE, cache |-> <<>>, i |-> 0, scored |-> <<>>,
     plan |-> NoPlan]

NoCalls == [c \in Callers |-> NoCall]

\* Owner, the two Pets and a Scheduler constructed, the tasks created with
\* distinct ids and added to the owner and to both pets
InitWith(catalog, n, avails, windows, prefs, days, dogs, cats, explains) ==
    /\ \E q \in SeqsUpTo(catalog, n) :
          tasks = [i \in DOMAIN q |-> [q[i] EXCEPT !.task_id = <<i>>]]
    /\ \E a \in avails, w \in windows, pr \in prefs :
          owner = [daily_time_available |-> a, preferred_windows |-> w,
                   preferences |-> pr, tasks |-> Indices(tasks)]
    /\ \E d \in dogs, c \in cats :
          pets = [p \in Pets |-> [species |-> (IF p = "p1" THEN d ELSE c).species,
                                  age_years |-> (IF p = "p1" THEN d ELSE c).age_years,
                                  activity_level |-> (IF p = "p1" THEN d ELSE c).activity_level,
                                  tasks |-> Indices(tasks)]]
    /\ \E e \in explains : scheduler = [explain |-> e, score_cache |-> <<>>]
    /\ today \in days
    /\ ret = NoRet
    /\ calls = NoCalls

Init ==
    InitWith(TaskCatalog, MaxTasks, AvailChoices, WindowChoices, PreferenceChoices,
             DayChoices, DogChoices, CatChoices, {TRUE})

----------------------------------------------------------------------------
(* Operations *)

\* generate_plan as a mutation would have it: the minutes left written back
\* to the owner
GeneratePlan_persist(p) ==
    LET plan == generate_plan(tasks, owner, pets[p], pets[p].tasks, today, scheduler)
    IN /\ scheduler' = [scheduler EXCEPT !.score_cache = plan.cache]
       /\ ret' = Ret("generate_plan", p, pets[p].tasks, plan, <<>>, <<>>)
       /\ owner' = [owner EXCEPT !.daily_time_available = plan.remainder]
       /\ UNCHANGED <<tasks, pets, today, calls>>

\* plan = scheduler.generate_plan(owner, pet, pet.tasks)   (main.py, app.py)
GeneratePlan(p) ==
    LET plan == generate_plan(tasks, owner, pets[p], pets[p].tasks, today, scheduler)
    IN /\ scheduler' = [scheduler EXCEPT !.score_cache = plan.cache]
       /\ ret' = Ret("generate_plan", p, pets[p].tasks, plan, <<>>, <<>>)
       /\ UNCHANGED <<tasks, owner, pets, today, calls>>

\* ranked = scheduler.rank_tasks(owner, pet, pet.tasks)   (app.py)
RankTasks(p) ==
    LET r == rank_tasks(tasks, owner, pets[p], pets[p].tasks, today, scheduler.score_cache)
    IN /\ scheduler' = [scheduler EXCEPT !.score_cache = r.cache]
       /\ ret' = Ret("rank_tasks", p, pets[p].tasks, NoPlan, r.out, <<>>)
       /\ UNCHANGED <<tasks, owner, pets, today, calls>>

\* scheduler.select_tasks(owner, pet, ranked) on the list just ranked
SelectTasks(p) ==
    /\ ret.op = "rank_tasks"
    /\ ret.pet = p
    /\ LET r == select_tasks(tasks, owner, pets[p], ret.out, today)
       IN ret' = Ret("select_tasks", p, ret.out,
                     [NoPlan EXCEPT !.skipped = r.skipped, !.remainder = r.remainder],
                     r.selected, <<>>)
    /\ UNCHANGED <<tasks, owner, pets, scheduler, today, calls>>

\* scheduler.sort_by_time(pet.tasks)   (main.py)
SortByTime(p) ==
    /\ ret' = Ret("sort_by_time", p, pets[p].tasks, NoPlan,
                  sort_by_time(tasks, pets[p].tasks), <<>>)
    /\ UNCHANGED <<tasks, owner, pets, scheduler, today, calls>>

\* owner.update_time_available(minutes)   (app.py)
UpdateTimeAvailable(minutes) ==
    /\ minutes # owner.daily_time_available
    /\ owner' = [owner EXCEPT !.daily_time_available = minutes]
    /\ ret' = Ret("update_time_available", "", <<>>, NoPlan, <<>>, <<>>)
    /\ UNCHANGED <<tasks, pets, scheduler, today, calls>>

Next ==
    \/ \E p \in Pets : GeneratePlan(p)
    \/ \E p \in Pets : RankTasks(p)
    \/ \E p \in Pets : SelectTasks(p)
    \/ \E p \in Pets : SortByTime(p)
    \/ \E m \in AvailChoices : UpdateTimeAvailable(m)

Spec == Init /\ [][Next]_vars

----------------------------------------------------------------------------
(* detect_conflicts on its own: any list of labelled ScheduledTasks *)

\* (pet_name, ScheduledTask(task, start, end)), the task by its name; the
\* fourth entry wraps past midnight as a placement of generate_plan can
EventChoices ==
    { [pet |-> "petA", task |-> "Brush", start |-> T(9, 0), end |-> T(10, 0)],
      [pet |-> "petB", task |-> "Walk", start |-> T(9, 30), end |-> T(10, 30)],
      [pet |-> "petA", task |-> "Feed", start |-> T(10, 0), end |-> T(11, 0)],
      [pet |-> "petB", task |-> "Play", start |-> T(23, 30), end |-> T(0, 10)],
      [pet |-> "petB", task |-> "Meds", start |-> T(10, 30), end |-> T(11, 30)] }

\* warnings = scheduler.detect_conflicts(combined)   (main.py, app.py)
DetectConflicts(events) ==
    /\ ret' = Ret("detect_conflicts", "", events, NoPlan, <<>>, detect_conflicts(events))
    /\ UNCHANGED <<tasks, owner, pets, scheduler, today, calls>>

InitFixed(catalog, n) ==
    InitWith(catalog, n, {60}, {<<>>}, {{}}, {4},
             {[species |-> "dog", age_years |-> 2, activity_level |-> "med"]},
             CatChoices, {TRUE})

InitConflicts == InitFixed({Task(<<>>, "feed", 10, 4, NoWindow, NoTime, TRUE)}, 1)

NextConflicts == \E events \in SeqsUpTo(EventChoices, MaxEvents) : DetectConflicts(events)

SpecConflicts == InitConflicts /\ [][NextConflicts]_vars

----------------------------------------------------------------------------
(* sort_by_time on its own: any list of tasks with or without deadline and
   preferred window *)

SortCatalog ==
    { Task(<<>>, "feed", 5, 1, w, d, TRUE) :
        w \in {NoWindow, <<T(8, 0), T(9, 0)>>, <<T(10, 0), T(11, 0)>>},
        d \in {NoTime, T(0, 0), T(9, 0)} }

InitSort == InitFixed(SortCatalog, MaxSortLen)

NextSort == \E p \in Pets : SortByTime(p)

SpecSort == InitSort /\ [][NextSort]_vars

----------------------------------------------------------------------------
(* completion and recurrence: mark_complete among the other operations of
   the engine *)

\* one task per frequency, and one with a preferred window
CompleteCatalog ==
    { [Task(<<>>, "feed", 10, 4, NoWindow, NoTime, TRUE) EXCEPT !.frequency = f] :
        f \in {Daily, Weekly, Once, <<"2">> \o XDay} }
    \cup { Task(<<>>, "walk", 30, 5, <<T(7, 30), T(8, 30)>>, NoTime, TRUE) }

InitComplete == InitFixed(CompleteCatalog, 1)

\* new_task = task.mark_complete(owner=..., pet=..., create_next=...) on any
\* Task; with_owner and p = "" stand for owner=None and pet=None;
\* args.before is the flag as it was before the call
MarkCompleteUpTo(i, with_owner, p, create_next, cap) ==
    LET r == mark_complete(tasks, i, create_next, today)
    IN /\ Len(r.heap) <= cap
       /\ tasks' = r.heap
       /\ pets' = IF r.new # <<>> /\ p # ""
                  THEN [pets EXCEPT ![p].tasks = @ \o r.new]
                  ELSE pets
       /\ owner' = IF r.new # <<>> /\ with_owner
                   THEN [owner EXCEPT !.tasks = @ \o r.new]
                   ELSE owner
       /\ ret' = [Ret("mark_complete", p, <<i>>, NoPlan, r.new, <<>>)
                    EXCEPT !.args = [owner |-> with_owner, create_next |-> create_next,
                                     before |-> tasks[i].completed]]
       /\ UNCHANGED <<scheduler, today, calls>>

\* mark_complete while no more than MaxHeap Task objects exist
MarkComplete(i, with_owner, p, create_next) ==
    MarkCompleteUpTo(i, with_owner, p, create_next, MaxHeap)

\* scheduler.filter_tasks(pet.tasks, completed=...)
FilterTasks(p, completed) ==
    /\ ret' = Ret("filter_tasks", p, pets[p].tasks, NoPlan,
                  filter_tasks(tasks, pets[p].tasks, completed), <<>>)
    /\ UNCHANGED <<tasks, owner, pets, scheduler, today, calls>>

\* task.expand_occurrences() on any Task
ExpandOccurrences(i) ==
    /\ ret' = Ret("expand_occurrences", "", <<i>>, NoPlan,
                  expand_occurrences(tasks[i]), <<>>)
    /\ UNCHANGED <<tasks, owner, pets, scheduler, today, calls>>

\* scheduler.detect_conflicts on the placements of the plan just generated
\* (app.py), the task by its category
DetectPlanConflicts ==
    /\ ret.op = "generate_plan"
    /\ DetectConflicts([k \in DOMAIN ret.plan.scheduled |->
                          [pet |-> ret.pet,
                           task |-> tasks[ret.plan.scheduled[k].task].category,
                           start |-> ret.plan.scheduled[k].start,
                           end |-> ret.plan.scheduled[k].end]])

NextComplete ==
    \/ \E i \in DOMAIN tasks, with_owner \in BOOLEAN, p \in Pets \cup {""},
          create_next \in BOOLEAN : MarkComplete(i, with_owner, p, create_next)
    \/ \E p \in Pets : GeneratePlan(p)
    \/ \E p \in Pets : RankTasks(p)
    \/ \E p \in Pets : SelectTasks(p)
    \/ \E p \in Pets : SortByTime(p)
    \/ \E p \in Pets, completed \in {<<>>, <<TRUE>>, <<FALSE>>} : FilterTasks(p, completed)
    \/ \E i \in DOMAIN tasks : ExpandOccurrences(i)
    \/ DetectPlanConflicts

SpecComplete == InitComplete /\ [][NextComplete]_vars

----------------------------------------------------------------------------
(* construction of Tasks: the dataclass takes whatever it is given *)

\* arguments of Task(...): durations positive, zero and negative, windows
\* absent, well formed, empty and reversed
CreateCatalog ==
    { Task(<<>>, "feed", d, 4, w, NoTime, TRUE) :
        d \in {10, 0, -5},
        w \in {NoWindow, <<T(8, 0), T(9, 0)>>, <<T(8, 0), T(8, 0)>>, <<T(9, 0), T(8, 0)>>} }

InitCreate ==
    InitWith({Task(<<>>, "feed", 10, 4, NoWindow, NoTime, TRUE)}, 1, {60},
             {<< <<T(7, 0), T(9, 0)>> >>}, {{}}, {4},
             {[species |-> "dog", age_years |-> 2, activity_level |-> "med"]},
             CatChoices, {TRUE})

\* task_obj = Task(...); pet.add_task(task_obj); owner.tasks.append(task_obj)
\* (app.py, main.py); the generated __init__ stores the arguments as given
CreateTask(p, t) ==
    /\ Len(tasks) < MaxHeap
    /\ tasks' = Append(tasks, [t EXCEPT !.task_id = <<Len(tasks) + 1>>])
    /\ pets' = [pets EXCEPT ![p].tasks = Append(@, Len(tasks) + 1)]
    /\ owner' = [owner EXCEPT !.tasks = Append(@, Len(tasks) + 1)]
    /\ ret' = Ret("Task", p, <<>>, NoPlan, <<Len(tasks) + 1>>, <<>>)
    /\ UNCHANGED <<scheduler, today, calls>>

NextCreate ==
    \/ \E p \in Pets, t \in CreateCatalog : CreateTask(p, t)
    \/ \E p \in Pets : GeneratePlan(p)

SpecCreate == InitCreate /\ [][NextCreate]_vars

----------------------------------------------------------------------------
(* adjust_duration on its own: every nominal duration up to MaxDuration, a
   pet younger than 8 and one of 8 or more, at every activity level *)

InitAdjust ==
    InitWith({Task(<<>>, "walk", d, 3, NoWindow, NoTime, TRUE) : d \in 1..MaxDuration},
             1, {60}, {<<>>}, {{}}, {4},
             {[species |-> "dog", age_years |-> a, activity_level |-> l] :
                a \in {2, 7}, l \in {"low", "med", "high"}},
             {[species |-> "dog", age_years |-> a, activity_level |-> l] :
                a \in {8, 12}, l \in {"low", "med", "high"}},
             {TRUE})

\* pet.adjust_duration(task)
AdjustDuration(p, i) ==
    /\ ret' = Ret("adjust_duration", p, <<i>>, NoPlan,
                  <<adjust_duration(pets[p], tasks[i])>>, <<>>)
    /\ UNCHANGED <<tasks, owner, pets, scheduler, today, calls>>

NextAdjust == \E p \in Pets, i \in DOMAIN tasks : AdjustDuration(p, i)

SpecAdjust == InitAdjust /\ [][NextAdjust]_vars

----------------------------------------------------------------------------
(* mark_complete on its own, owner and pet given, any task any number of
   times on the same day *)

InitRecur == InitFixed(CompleteCatalog, 1)

NextRecur ==
    \E i \in DOMAIN tasks, p \in Pets, create_next \in BOOLEAN :
        MarkCompleteUpTo(i, TRUE, p, create_next, MaxRecur)

SpecRecur == InitRecur /\ [][NextRecur]_vars

----------------------------------------------------------------------------
(* rank_tasks on a fresh Scheduler: priorities inside and outside 1..5, with
   and without deadline, categories the owner or the pet can object to *)

RankCatalog ==
    { Task(<<>>, c, 10, pr, NoWindow, d, TRUE) :
        c \in {"feed", "walk", "grooming"}, pr \in {1, 5, 7}, d \in {NoTime, T(9, 0)} }

InitRank ==
    InitWith(RankCatalog, MaxRankLen, {60}, {<<>>}, PreferenceChoices, DayChoices,
             {[species |-> "dog", age_years |-> 2, activity_level |-> "med"]},
             CatChoices, {TRUE})

\* scheduler = Scheduler(); ranked = scheduler.rank_tasks(owner, pet, pet.tasks)
RankFresh(p) ==
    LET r == rank_tasks(tasks, owner, pets[p], pets[p].tasks, today, <<>>)
    IN /\ scheduler' = [scheduler EXCEPT !.score_cache = r.cache]
       /\ ret' = Ret("rank_tasks", p, pets[p].tasks, NoPlan, r.out, <<>>)
       /\ UNCHANGED <<tasks, owner, pets, today, calls>>

NextRank == \E p \in Pets : RankFresh(p)

SpecRank == InitRank /\ [][NextRank]_vars

----------------------------------------------------------------------------
(* expand_occurrences on its own: '<n>x-day' for every n up to MaxSlots,
   other frequencies, and a task with a preferred window *)

RECURSIVE str_of(_)
\* str(n) for n >= 0
str_of(n) ==
    IF n < 10 THEN <<DigitChars[n + 1]>>
    ELSE str_of(n \div 10) \o <<DigitChars[(n % 10) + 1]>>

\* f"{n}x-day"
TimesADay(n) == str_of(n) \o XDay

FreqCatalog ==
    { [Task(<<>>, "feed", 10, 4, NoWindow, NoTime, TRUE) EXCEPT !.frequency = f] :
        f \in {TimesADay(n) : n \in 0..MaxSlots} \cup {Daily, XDay} }
    \cup { [Task(<<>>, "walk", 30, 5, <<T(7, 30), T(8, 30)>>, NoTime, TRUE)
              EXCEPT !.frequency = TimesADay(2)] }

InitFreq == InitFixed(FreqCatalog, 2)

NextFreq == \E i \in DOMAIN tasks : ExpandOccurrences(i)

SpecFreq == InitFreq /\ [][NextFreq]_vars

----------------------------------------------------------------------------
(* Owner.allows on its own: walks, grooming and feeding with a window or a
   deadline ending around 21:30, under every combination of the two flags,
   on weekdays and at the weekend *)

EndChoices == {T(0, 0), T(9, 0), T(21, 30), TS(21, 30, 30), T(21, 31), T(22, 0)}

AllowsCatalog ==
    { Task(<<>>, c, 20, 3, w, d, TRUE) :
        c \in {"walk", "grooming", "feed"},
        w \in {NoWindow} \cup {<<T(0, 0), e>> : e \in EndChoices},
        d \in {NoTime, T(21, 0), T(23, 0)} \cup EndChoices }

\* a Monday, a Friday, a Saturday and a Sunday
AllowsDayChoices == {0, 4, 5, 6}

InitAllows ==
    InitWith(AllowsCatalog, 1, {60}, {<<>>},
             SUBSET {"avoid_late_walks", "no_grooming_weekdays"}, AllowsDayChoices,
             {[species |-> "dog", age_years |-> 2, activity_level |-> "med"]},
             CatChoices, {TRUE})

\* owner.allows(task)
Allows(i) ==
    /\ ret' = Ret("allows", "", <<i>>, NoPlan, <<allows(owner, tasks[i], today)>>, <<>>)
    /\ UNCHANGED <<tasks, owner, pets, scheduler, today, calls>>

NextAllows == \E i \in DOMAIN tasks : Allows(i)

SpecAllows == InitAllows /\ [][NextAllows]_vars

----------------------------------------------------------------------------
(* generate_plan with the explain flag of the Scheduler on (app.py) or off
   (the default of the constructor) *)

InitExplain ==
    InitWith(TaskCatalog, MaxTasks, {10, 60}, {<<>>}, PreferenceChoices, {4},
             {[species |-> "dog", age_years |-> 2, activity_level |-> "med"]},
             CatChoices, BOOLEAN)

NextExplain == \E p \in Pets : GeneratePlan(p)

SpecExplain == InitExplain /\ [][NextExplain]_vars

----------------------------------------------------------------------------
(* Two calls of generate_plan at the same time, as two threads would make
   them: each call of get_score_cached is a lookup ('key in
   self.score_cache'), then either the read of the cached score or the
   computation and store of a new one, and the other call may run between
   any two of these steps. A caller plans with the Scheduler both callers
   hold or with a Scheduler() it constructs for the call. *)

RaceCatalog ==
    { Task(<<>>, "walk", 30, 5, NoWindow, NoTime, TRUE),
      Task(<<>>, "walk", 25, 4, NoWindow, T(9, 0), TRUE),
      Task(<<>>, "feed", 10, 4, NoWindow, NoTime, TRUE),
      Task(<<>>, "feed", 10, 1, NoWindow, NoTime, FALSE) }

InitRace == InitFixed(RaceCatalog, MaxTasks)

\* uses_own as a mutation would have it: score_cache one dict for every
\* Scheduler instance
uses_own_never(call) == FALSE

\* score_cache: Dict[str, float] = field(default_factory=dict): a Scheduler
\* constructed for the call has a score_cache of its own
uses_own(call) == call.own

\* self.score_cache as the call c sees it
the_cache(c) == IF uses_own(calls[c]) THEN calls[c].cache ELSE scheduler.score_cache

\* the list given to the call and the task rank_tasks is scoring
ListOf(c) == pets[calls[c].pet].tasks
CurrentTask(c) == tasks[ListOf(c)[calls[c].i]]

\* the position after the score s of the current task has been returned to
\* the list comprehension of rank_tasks
Scored(c, s) ==
    [calls[c] EXCEPT !.scored = Append(@, <<s, ListOf(c)[calls[c].i]>>),
                     !.i = @ + 1,
                     !.pc = IF calls[c].i = Len(ListOf(c)) THEN "plan" ELSE "check"]

\* scheduler.generate_plan(owner, pet, pet.tasks) entered, with own the
\* Scheduler constructed by the caller for this call
StartCall(c, p, own) ==
    /\ calls[c].pc = "idle"
    /\ calls' = [calls EXCEPT ![c] =
                   [NoCall EXCEPT !.pc = IF pets[p].tasks = <<>> THEN "plan" ELSE "check",
                                  !.pet = p, !.own = own, !.i = 1]]
    /\ UNCHANGED <<tasks, owner, pets, scheduler, today, ret>>

\* get_score_cached: if key in self.score_cache
CacheCheck(c) ==
    /\ calls[c].pc = "check"
    /\ calls' = [calls EXCEPT ![c].pc =
                   IF CurrentTask(c).task_id \in DOMAIN the_cache(c) THEN "read" ELSE "store"]
    /\ UNCHANGED <<tasks, owner, pets, scheduler, today, ret>>

\* get_score_cached: return self.score_cache[key]
CacheRead(c) ==
    /\ calls[c].pc = "read"
    /\ calls' = [calls EXCEPT ![c] = Scored(c, the_cache(c)[CurrentTask(c).task_id])]
    /\ UNCHANGED <<tasks, owner, pets, scheduler, today, ret>>

\* get_score_cached: s = task.score(owner, pet); self.score_cache[key] = s;
\* return s
CacheStore(c) ==
    /\ calls[c].pc = "store"
    /\ LET key == CurrentTask(c).task_id
           s == score(CurrentTask(c), owner, pets[calls[c].pet], today)
           stored == [k \in DOMAIN the_cache(c) \cup {key} |->
                        IF k = key THEN s ELSE the_cache(c)[k]]
       IN IF uses_own(calls[c])
          THEN /\ calls' = [calls EXCEPT ![c] = [Scored(c, s) EXCEPT !.cache = stored]]
               /\ UNCHANGED scheduler
          ELSE /\ calls' = [calls EXCEPT ![c] = Scored(c, s)]
               /\ scheduler' = [scheduler EXCEPT !.score_cache = stored]
    /\ UNCHANGED <<tasks, owner, pets, today, ret>>

\* rank_tasks sorts what it scored and returns; generate_plan runs its loop
\* on locals and returns the plan
ReturnPlan(c) ==
    /\ calls[c].pc = "plan"
    /\ calls' = [calls EXCEPT
                   ![c].pc = "done",
                   ![c].plan = plan_ranked(tasks, owner, pets[calls[c].pet], today,
                                           Seconds(sort_desc(<<>>, calls[c].scored)),
                                           the_cache(c), scheduler.explain)]
    /\ UNCHANGED <<tasks, owner, pets, scheduler, today, ret>>

NextRace ==
    \/ \E c \in Callers, p \in Pets, own \in BOOLEAN : StartCall(c, p, own)
    \/ \E c \in Callers : CacheCheck(c)
    \/ \E c \in Callers : CacheRead(c)
    \/ \E c \in Callers : CacheStore(c)
    \/ \E c \in Callers : ReturnPlan(c)

SpecRace == InitRace /\ [][NextRace]_vars

----------------------------------------------------------------------------
(* Properties *)

Planned == ret.op = "generate_plan"
ThePet == pets[ret.pet]
Scheduled == ret.plan.scheduled
Skipped == ret.plan.skipped

Count(x, q) == Cardinality({i \in DOMAIN q : q[i] = x})
IsPermutation(a, b) ==
    /\ Len(a) = Len(b)
    /\ \A x \in Range(a) \cup Range(b) : Count(x, a) = Count(x, b)

SkippedFor(t, reason) == \E i \in DOMAIN Skipped : Skipped[i] = [task |-> t, reason |-> reason]
IsScheduled(t) == \E i \in DOMAIN Scheduled : Scheduled[i].task = t
PassesGates(task) ==
    task.enabled /\ allows(owner, task, today) /\ is_task_recommended(ThePet, task)

\* C1: the plan returned by generate_plan has total_minutes <=
\* owner.available_minutes(), and the remaining budget of the loop is never
\* below zero, neither when a task is considered nor at the end.
C1_TotalWithinBudget ==
    Planned =>
        /\ ret.plan.total_minutes <= available_minutes(owner)
        /\ ret.plan.remainder >= 0
        /\ \A k \in DOMAIN ret.plan.trace : ret.plan.trace[k].remainder >= 0

\* C2: a task that is enabled, allowed and recommended is skipped with "not
\* enough time remaining" exactly when its adjusted duration exceeds the
\* budget remaining when it is considered, and is scheduled when it fits.
C2_TimeGateOnAdjustedDuration ==
    Planned =>
        \A k \in DOMAIN ret.plan.trace :
            LET t == ret.plan.trace[k].task
                remaining == ret.plan.trace[k].remainder
                t_dur == adjust_duration(ThePet, tasks[t])
            IN PassesGates(tasks[t]) =>
                  /\ SkippedFor(t, "not enough time remaining") <=> (t_dur > remaining)
                  /\ (t_dur <= remaining) => IsScheduled(t)

\* C3: no two distinct entries of plan['scheduled'] overlap in time.
C3_PlacementsDisjoint ==
    Planned =>
        \A i, j \in DOMAIN Scheduled :
            i # j => ~(Scheduled[i].start < Scheduled[j].end /\
                       Scheduled[j].start < Scheduled[i].end)

FirstFailedGate(task) ==
    IF ~task.enabled THEN "disabled"
    ELSE IF ~allows(owner, task, today) THEN "owner preference disallows"
    ELSE IF ~is_task_recommended(ThePet, task) THEN "not recommended for pet"
    ELSE "not enough time remaining"

\* C4: every skipped task carries the reason of the first gate it fails, in
\* the order disabled, owner preference, pet recommendation, time budget; a
\* task failing one of the first three gates is skipped, and no task is lost:
\* every input task is decided exactly once, as scheduled or as skipped.
C4_SkipReasonIsFirstFailedGate ==
    Planned =>
        /\ \A i \in DOMAIN Skipped :
              Skipped[i].reason = FirstFailedGate(tasks[Skipped[i].task])
        /\ \A k \in DOMAIN ret.input :
              LET t == ret.input[k]
              IN /\ ~PassesGates(tasks[t]) => SkippedFor(t, FirstFailedGate(tasks[t]))
                 /\ Cardinality({i \in DOMAIN Skipped : Skipped[i].task = t})
                    + Cardinality({i \in DOMAIN Scheduled : Scheduled[i].task = t}) = 1

\* a task that fails the first three gates at once is skipped as "disabled",
\* next to a task skipped by a later gate
C4_Witness ==
    /\ Planned
    /\ \E i \in DOMAIN Skipped :
          LET task == tasks[Skipped[i].task]
          IN /\ ~task.enabled
             /\ ~allows(owner, task, today)
             /\ ~is_task_recommended(ThePet, task)
             /\ Skipped[i].reason = "disabled"
    /\ \E i \in DOMAIN Skipped : Skipped[i].reason = "not recommended for pet"

\* C5: total_minutes is the sum of the adjusted durations of the scheduled
\* tasks and is the initial available minutes minus the final remainder.
C5_TotalIsSumOfAdjusted ==
    Planned =>
        /\ ret.plan.total_minutes =
              SumSeq([i \in DOMAIN Scheduled |-> adjust_duration(ThePet, tasks[Scheduled[i].task])])
        /\ ret.plan.total_minutes = available_minutes(owner) - ret.plan.remainder

\* two tasks scheduled whose adjusted durations differ from the nominal ones
C5_Witness ==
    /\ Planned
    /\ Len(Scheduled) >= 2
    /\ \A i \in DOMAIN Scheduled :
          adjust_duration(ThePet, tasks[Scheduled[i].task]) # tasks[Scheduled[i].task].duration

\* the candidate windows of a task, first to last in the owner's order: each
\* owner window cut to the task's preferred window, or whole when the task
\* has none, the empty cuts left out
Candidates(task) ==
    LET ows == owner.preferred_windows
        cut(k) == IF task.preferred_window = NoWindow THEN ows[k]
                  ELSE <<Max(ows[k][1], task.preferred_window[1]),
                         Min(ows[k][2], task.preferred_window[2])>>
    IN {k \in DOMAIN ows : cut(k)[1] < cut(k)[2]}
FirstCandidateStart(task) ==
    LET ows == owner.preferred_windows
        k == CHOOSE c \in Candidates(task) : \A d \in Candidates(task) : c <= d
    IN IF task.preferred_window = NoWindow THEN ows[k][1]
       ELSE Max(ows[k][1], task.preferred_window[1])

\* C6: a scheduled task with a candidate window starts at the start of its
\* first candidate window in the owner's order and ends adjusted-duration
\* minutes after its start (times of day: 24:00 and later read as 00:00 and
\* later).
C6_PlacedAtFirstCandidate ==
    Planned =>
        \A i \in DOMAIN Scheduled :
            LET task == tasks[Scheduled[i].task]
                t_dur == adjust_duration(ThePet, task)
                start == Scheduled[i].start
                end == Scheduled[i].end
            IN Candidates(task) # {} =>
                  /\ start = FirstCandidateStart(task)
                  /\ IF start + t_dur * 60 < SecondsPerDay
                     THEN end = start + t_dur * 60
                     ELSE end = start + t_dur * 60 - SecondsPerDay

\* the example: 60 minutes, window 07:00-09:00, one task of 30 minutes with
\* window 07:30-08:30, factor 1.0: placed 07:30-08:00, total 30, no skips
C6_Witness ==
    /\ Planned
    /\ available_minutes(owner) = 60
    /\ owner.preferred_windows = << <<T(7, 0), T(9, 0)>> >>
    /\ Len(ret.input) = 1
    /\ tasks[ret.input[1]].duration = 30
    /\ tasks[ret.input[1]].preferred_window = <<T(7, 30), T(8, 30)>>
    /\ adjust_duration(ThePet, tasks[ret.input[1]]) = 30
    /\ Scheduled = <<[task |-> ret.input[1], start |-> T(7, 30), end |-> T(8, 0)]>>
    /\ ret.plan.total_minutes = 30
    /\ Skipped = <<>>

NonIncreasingScores(out, pet) ==
    \A i, j \in DOMAIN out :
        i < j => score(tasks[out[i]], owner, pet, today) >= score(tasks[out[j]], owner, pet, today)

\* C7: rank_tasks returns a permutation of its input whose scores, as the
\* Scorer gives them for the owner and pet of the call, are non-increasing,
\* on any Scheduler, used before or not.
C7_RankedByScore ==
    ret.op = "rank_tasks" =>
        /\ IsPermutation(ret.out, ret.input)
        /\ NonIncreasingScores(ret.out, ThePet)

FreshScheduler == [scheduler EXCEPT !.score_cache = <<>>]

\* C8: a score memoized by one generate_plan or rank_tasks call is not used
\* by a later call: every call returns what a freshly constructed Scheduler
\* returns.
C8_CacheScopedToOneRun ==
    /\ Planned =>
          LET fresh == generate_plan(tasks, owner, ThePet, ret.input, today, FreshScheduler)
          IN /\ Scheduled = fresh.scheduled
             /\ Skipped = fresh.skipped
             /\ ret.plan.total_minutes = fresh.total_minutes
    /\ ret.op = "rank_tasks" =>
          ret.out = rank_tasks(tasks, owner, ThePet, ret.input, today, <<>>).out

OverlappingPairs(events) ==
    {pr \in (DOMAIN events) \X (DOMAIN events) :
        /\ pr[1] < pr[2]
        /\ events[pr[1]].start < events[pr[2]].end
        /\ events[pr[2]].start < events[pr[1]].end}

\* C9: detect_conflicts returns exactly one warning for every pair of entries
\* i < j with start_i < end_j and start_j < end_i and none for any other
\* pair, so as many warnings as overlapping pairs; entries that only touch
\* give none.
C9_OneWarningPerOverlap ==
    ret.op = "detect_conflicts" =>
        /\ \A pr \in OverlappingPairs(ret.input) :
              Cardinality({k \in DOMAIN ret.warnings : ret.warnings[k].pair = pr}) = 1
        /\ \A k \in DOMAIN ret.warnings : ret.warnings[k].pair \in OverlappingPairs(ret.input)
        /\ Len(ret.warnings) = Cardinality(OverlappingPairs(ret.input))

\* 09:00-10:00, 09:30-10:30 and 10:00-11:00: the first two overlap, the
\* second and third overlap, the first and third only touch
C9_Witness ==
    /\ ret.op = "detect_conflicts"
    /\ Len(ret.input) = 3
    /\ <<ret.input[1].start, ret.input[1].end>> = <<T(9, 0), T(10, 0)>>
    /\ <<ret.input[2].start, ret.input[2].end>> = <<T(9, 30), T(10, 30)>>
    /\ <<ret.input[3].start, ret.input[3].end>> = <<T(10, 0), T(11, 0)>>
    /\ [k \in DOMAIN ret.warnings |-> ret.warnings[k].pair] = << <<1, 2>>, <<2, 3>> >>

RepresentativeTime(task) ==
    IF task.deadline_time # NoTime THEN task.deadline_time
    ELSE IF task.preferred_window # NoWindow THEN task.preferred_window[1]
    ELSE 0

\* C10: sort_by_time returns a permutation of its input in non-decreasing
\* order of representative time: the deadline if present, else the start of
\* the preferred window if present, else 00:00.
C10_SortedByRepresentativeTime ==
    ret.op = "sort_by_time" =>
        /\ IsPermutation(ret.out, ret.input)
        /\ \A i, j \in DOMAIN ret.out :
              i < j => RepresentativeTime(tasks[ret.out[i]]) <= RepresentativeTime(tasks[ret.out[j]])

\* the example: [deadline 09:00, window from 08:00, neither] comes back as
\* [neither, window, deadline]
C10_Witness ==
    /\ ret.op = "sort_by_time"
    /\ Len(ret.input) = 3
    /\ tasks[ret.input[1]].deadline_time = T(9, 0)
    /\ tasks[ret.input[1]].preferred_window = NoWindow
    /\ tasks[ret.input[2]].deadline_time = NoTime
    /\ tasks[ret.input[2]].preferred_window = <<T(8, 0), T(9, 0)>>
    /\ tasks[ret.input[3]].deadline_time = NoTime
    /\ tasks[ret.input[3]].preferred_window = NoWindow
    /\ ret.out = <<ret.input[3], ret.input[2], ret.input[1]>>

----------------------------------------------------------------------------
(* Completion and recurrence *)

Completing == ret.op = "mark_complete"

\* C11: mark_complete(owner, pet, create_next=True) on a 'daily' (resp.
\* 'weekly') task returns a new task with completed = false and due_date =
\* today + 1 day (resp. + 7 days), appended to both pet.tasks and
\* owner.tasks, while the original task is marked completed and is still a
\* member of every collection it was in before the call.
C11_NextOccurrenceCreated ==
    [][ret'.op = "mark_complete" /\ ret'.args.create_next /\ ret'.args.owner
         /\ ret'.pet # "" /\ tasks[ret'.input[1]].frequency \in {Daily, Weekly}
       => LET i == ret'.input[1]
              p == ret'.pet
          IN /\ Len(ret'.out) = 1
             /\ LET k == ret'.out[1]
                IN /\ k \notin DOMAIN tasks
                   /\ k \in DOMAIN tasks'
                   /\ tasks'[k].completed = FALSE
                   /\ tasks'[k].due_date =
                        today + (IF tasks[i].frequency = Daily THEN 1 ELSE 7)
                   /\ pets'[p].tasks = Append(pets[p].tasks, k)
                   /\ owner'.tasks = Append(owner.tasks, k)
             /\ tasks'[i].completed
             /\ \A q \in Pets : Range(pets[q].tasks) \subseteq Range(pets'[q].tasks)
             /\ Range(owner.tasks) \subseteq Range(owner'.tasks)]_vars

\* a weekly task completed with owner and pet given: its next occurrence is
\* at the end of both lists, due in seven days
C11_Witness ==
    /\ Completing
    /\ ret.args.create_next /\ ret.args.owner /\ ret.pet = "p2"
    /\ tasks[ret.input[1]].frequency = Weekly
    /\ tasks[ret.input[1]].completed
    /\ ret.out = <<Len(tasks)>>
    /\ tasks[ret.out[1]].due_date = today + 7
    /\ ~tasks[ret.out[1]].completed
    /\ owner.tasks = <<ret.input[1], ret.out[1]>>
    /\ pets["p2"].tasks = <<ret.input[1], ret.out[1]>>
    /\ pets["p1"].tasks = <<ret.input[1]>>

\* C12: mark_complete(create_next=False) is idempotent: whether the task was
\* already completed or not, the call leaves completed = true, returns no
\* new task and leaves the owner's and the pets' collections unchanged; on a
\* task already completed it changes nothing at all.
C12_CompleteWithoutNextIdempotent ==
    [][ret'.op = "mark_complete" /\ ~ret'.args.create_next
       => LET i == ret'.input[1]
          IN /\ tasks'[i].completed
             /\ ret'.out = <<>>
             /\ owner' = owner
             /\ pets' = pets
             /\ tasks' = [tasks EXCEPT ![i].completed = TRUE]
             /\ (tasks[i].completed => tasks' = tasks)]_vars

\* a second mark_complete(create_next=False) on a daily task: nothing was
\* ever created from it
C12_Witness ==
    /\ Completing
    /\ ~ret.args.create_next
    /\ ret.args.before
    /\ ret.out = <<>>
    /\ Len(tasks) = 1
    /\ tasks[1].frequency = Daily
    /\ tasks[1].completed
    /\ owner.tasks = <<1>>
    /\ \A q \in Pets : pets[q].tasks = <<1>>

\* C13: under any sequence of engine operations, a completed flag that is
\* true stays true, and a flag goes from false to true only in a
\* mark_complete call on that same task.
C13_CompletionOneWay ==
    [][\A i \in DOMAIN tasks :
         /\ i \in DOMAIN tasks'
         /\ (tasks[i].completed => tasks'[i].completed)
         /\ (~tasks[i].completed /\ tasks'[i].completed
               => ret'.op = "mark_complete" /\ ret'.input = <<i>>)]_vars

\* a plan generated over a task completed earlier: the flag is still set
C13_Witness ==
    /\ Planned
    /\ ret.plan.scheduled # <<>>
    /\ \E i \in Range(ret.input) : tasks[i].completed

\* C14: generate_plan, rank_tasks and select_tasks leave the owner (time
\* available, preferred windows, preferences, tasks), the pets and every
\* field of every task unchanged; only the Scheduler's score cache may
\* change.
C14_PlanningLeavesInputsUnchanged ==
    [][ret'.op \in {"generate_plan", "rank_tasks", "select_tasks"}
       => owner' = owner /\ pets' = pets /\ tasks' = tasks]_vars

\* a plan that spent minutes of the budget and a cache that was filled, the
\* owner's minutes as they were
C14_Witness ==
    /\ Planned
    /\ ret.plan.total_minutes > 0
    /\ scheduler.score_cache # <<>>
    /\ owner.daily_time_available = ret.plan.remainder + ret.plan.total_minutes

----------------------------------------------------------------------------
(* Construction *)

\* the invariant of the data model: duration > 0 and, where there is a
\* preferred window, its start strictly before its end
WellFormed(task) ==
    /\ task.duration > 0
    /\ (task.preferred_window # NoWindow
          => task.preferred_window[1] < task.preferred_window[2])

\* C15: a Task that violates the data-model invariant (duration <= 0, or a
\* preferred window whose start is not strictly before its end) is rejected
\* when it is constructed, so generate_plan never sees such a task.
C15_MalformedTaskNeverPlanned ==
    Planned => \A i \in Range(ret.input) : WellFormed(tasks[i])

----------------------------------------------------------------------------
(* Adjusted durations *)

Adjusting == ret.op = "adjust_duration"

\* the pets younger than 8 at the activity level of pet p
YoungerPeers(p) ==
    {q \in Pets : pets[q].age_years < 8
                  /\ pets[q].activity_level = pets[p].activity_level}

\* C16 as stated: for every task with positive nominal duration and every
\* fixed activity level, adjust_duration for a pet of age >= 8 is strictly
\* smaller than for a pet of age < 8.
C16_SeniorStrictlyShorter ==
    Adjusting /\ pets[ret.pet].age_years >= 8
    => \A q \in YoungerPeers(ret.pet) :
          ret.out[1] < adjust_duration(pets[q], tasks[ret.input[1]])

\* C16 amended: for every task with positive nominal duration and every
\* fixed activity level, adjust_duration for a pet of age >= 8 is never
\* larger than for a pet of age < 8, and it is strictly smaller when the
\* nominal duration is 3 minutes or more; for durations 1 and 2 the floor
\* and the minimum of 1 minute can make the two equal.
C16_SeniorShorterFromThreeMinutes ==
    Adjusting /\ pets[ret.pet].age_years >= 8
    => \A q \in YoungerPeers(ret.pet) :
          LET young == adjust_duration(pets[q], tasks[ret.input[1]])
          IN /\ ret.out[1] <= young
             /\ (tasks[ret.input[1]].duration >= 3 => ret.out[1] < young)

\* a 3-minute task at activity level low: 1 minute for the pet of 8, 2 for
\* the pet of 7
C16_Witness ==
    /\ Adjusting
    /\ pets[ret.pet].age_years = 8
    /\ pets[ret.pet].activity_level = "low"
    /\ tasks[ret.input[1]].duration = 3
    /\ ret.out = <<1>>
    /\ \E q \in YoungerPeers(ret.pet) :
          pets[q].age_years = 7 /\ adjust_duration(pets[q], tasks[ret.input[1]]) = 2

----------------------------------------------------------------------------
(* Selection *)

Selecting == ret.op = "select_tasks"

\* the tasks of a list of ScheduledTasks or of (task, reason) pairs
TasksOf(entries) == [k \in DOMAIN entries |-> entries[k].task]

\* C17: select_tasks is generate_plan without time placement: for the same
\* owner, pet and ranked order, the selected list is the tasks of
\* plan['scheduled'] in the same order and the two skipped lists hold the
\* same tasks in the same order.
C17_SelectRefinesGeneratePlan ==
    Selecting
    => LET p == ret.pet
           plan == generate_plan(tasks, owner, pets[p], pets[p].tasks, today, scheduler)
       IN plan.ranked = ret.input
          => /\ ret.out = TasksOf(plan.scheduled)
             /\ TasksOf(ret.plan.skipped) = TasksOf(plan.skipped)

----------------------------------------------------------------------------
(* The plan against the gates *)

\* C18: every task in plan['scheduled'] is enabled, allowed by
\* owner.allows and recommended by pet.is_task_recommended as they are at
\* the time of the call, whatever score the cache holds for it.
C18_ScheduledPassGates ==
    Planned => \A k \in DOMAIN Scheduled : PassesGates(tasks[Scheduled[k].task])

\* a task scheduled although the cache holds a score for it that is not the
\* one the owner and this pet give it
C18_Witness ==
    /\ Planned
    /\ \E k \in DOMAIN Scheduled :
          LET task == tasks[Scheduled[k].task]
          IN /\ PassesGates(task)
             /\ scheduler.score_cache[task.task_id] # score(task, owner, ThePet, today)
             /\ scheduler.score_cache[task.task_id] < 0

RECURSIVE IsSubsequence(_, _)
\* a is b with some entries left out, the order kept
IsSubsequence(a, b) ==
    IF a = <<>> THEN TRUE
    ELSE IF b = <<>> THEN FALSE
    ELSE IF Head(a) = Head(b) THEN IsSubsequence(Tail(a), Tail(b))
    ELSE IsSubsequence(a, Tail(b))

\* rank_tasks' output for the input of the plan, the scores being those of
\* the call
RankedInput ==
    rank_tasks(tasks, owner, ThePet, ret.input, today, scheduler.score_cache).out

\* C19: generate_plan is a single pass over the ranked tasks: every input
\* task is in exactly one of scheduled and skipped, both lists are
\* subsequences of rank_tasks' output, and a task skipped for lack of time is
\* not scheduled later in the same call, even when smaller tasks are
\* scheduled after it.
C19_SinglePass ==
    Planned =>
       /\ \A t \in Range(ret.input) :
             Count(t, TasksOf(Scheduled)) + Count(t, TasksOf(Skipped)) = 1
       /\ Range(TasksOf(Scheduled)) \cup Range(TasksOf(Skipped)) = Range(ret.input)
       /\ IsSubsequence(TasksOf(Scheduled), RankedInput)
       /\ IsSubsequence(TasksOf(Skipped), RankedInput)
       /\ \A t \in Range(ret.input) :
             SkippedFor(t, "not enough time remaining") => ~IsScheduled(t)

\* the first task of the ranking skipped for lack of time and the second
\* one, shorter, scheduled
C19_Witness ==
    /\ Planned
    /\ Len(RankedInput) = 2
    /\ Skipped = <<[task |-> RankedInput[1], reason |-> "not enough time remaining"]>>
    /\ TasksOf(Scheduled) = <<RankedInput[2]>>
    /\ adjust_duration(ThePet, tasks[RankedInput[2]])
         < adjust_duration(ThePet, tasks[RankedInput[1]])

SkipReasons ==
    {"disabled", "owner preference disallows", "not recommended for pet",
     "not enough time remaining"}

\* C20: a task that passes the four gates but has no candidate window (the
\* owner has no windows, or none meets the task's window) is scheduled all
\* the same, from 00:00 to adjusted-duration minutes later; no task is
\* skipped for want of a candidate window.
C20_NoWindowFallsBackToMidnight ==
    Planned =>
       /\ \A k \in DOMAIN ret.plan.trace :
             LET t == ret.plan.trace[k].task
             IN PassesGates(tasks[t])
                /\ is_feasible(tasks[t], ret.plan.trace[k].remainder)
                /\ Candidates(tasks[t]) = {}
                => \E i \in DOMAIN Scheduled :
                      /\ Scheduled[i].task = t
                      /\ Scheduled[i].start = T(0, 0)
                      /\ Scheduled[i].end = (adjust_duration(ThePet, tasks[t]) * 60) % SecondsPerDay
       /\ \A i \in DOMAIN Scheduled :
             Candidates(tasks[Scheduled[i].task]) = {}
             => /\ Scheduled[i].start = T(0, 0)
                /\ Scheduled[i].end
                     = (adjust_duration(ThePet, tasks[Scheduled[i].task]) * 60) % SecondsPerDay
       /\ \A i \in DOMAIN Skipped : Skipped[i].reason \in SkipReasons

\* the owner has the window 07:00-09:00, the task prefers 20:00-22:00: it is
\* scheduled at 00:00 for its adjusted duration
C20_Witness ==
    /\ Planned
    /\ owner.preferred_windows = << <<T(7, 0), T(9, 0)>> >>
    /\ \E i \in DOMAIN Scheduled :
          LET task == tasks[Scheduled[i].task]
          IN /\ task.preferred_window = <<T(20, 0), T(22, 0)>>
             /\ Candidates(task) = {}
             /\ Scheduled[i].start = T(0, 0)
             /\ Scheduled[i].end = T(0, 25)
             /\ adjust_duration(ThePet, task) = 25

----------------------------------------------------------------------------
(* Placements as intervals *)

\* the end of the first candidate window of a task, in the owner's order
FirstCandidateEnd(task) ==
    LET ows == owner.preferred_windows
        k == CHOOSE c \in Candidates(task) : \A d \in Candidates(task) : c <= d
    IN IF task.preferred_window = NoWindow THEN ows[k][2]
       ELSE Min(ows[k][2], task.preferred_window[2])

\* C21: every ScheduledTask of generate_plan is a well-formed same-day
\* interval: its start is before its end as times of day, and when it was
\* placed in a candidate window its end is not after that window's end.
C21_PlacementsWellFormed ==
    Planned =>
        \A i \in DOMAIN Scheduled :
            LET task == tasks[Scheduled[i].task]
            IN /\ Scheduled[i].start < Scheduled[i].end
               /\ (Candidates(task) # {} => Scheduled[i].end <= FirstCandidateEnd(task))

----------------------------------------------------------------------------
(* Identifiers *)

\* the tasks of a list have pairwise distinct task_id values
DistinctIds(list) ==
    \A a, b \in DOMAIN list :
        a # b => tasks[list[a]].task_id # tasks[list[b]].task_id

\* C22: starting from collections whose tasks have pairwise distinct
\* task_id values, after any sequence of mark_complete calls with pet and
\* owner supplied, the same recurring task completed repeatedly included,
\* the tasks of every pet.tasks and of owner.tasks have pairwise distinct
\* task_id values.
C22_TaskIdsUnique ==
    /\ DistinctIds(owner.tasks)
    /\ \A q \in Pets : DistinctIds(pets[q].tasks)

----------------------------------------------------------------------------
(* The duration formula *)

\* f_age * f_level in hundredths: 0.7 for age >= 8, then 0.8 for 'low', 1.1
\* for 'high'
FactorHundredths(pet) ==
    (IF pet.age_years >= 8 THEN 7 ELSE 10)
    * (IF pet.activity_level = "low" THEN 8
       ELSE IF pet.activity_level = "high" THEN 11 ELSE 10)

\* C23: pet.adjust_duration(task) is max(1, floor(duration * f_age *
\* f_level)), f_age being 0.7 from age 8 on and 1 before, f_level 0.8 for
\* 'low', 1.1 for 'high' and 1 otherwise; the result is an integer >= 1.
C23_AdjustedIsFlooredProduct ==
    Adjusting =>
        LET pet == pets[ret.pet]
            task == tasks[ret.input[1]]
        IN /\ ret.out[1] = Max(1, (task.duration * FactorHundredths(pet)) \div 100)
           /\ ret.out[1] >= 1

----------------------------------------------------------------------------
(* Penalties in the ranking *)

Ranking == ret.op = "rank_tasks"

\* the owner allows the task and the pet recommends it
PassesBoth(task) == allows(owner, task, today) /\ is_task_recommended(ThePet, task)

\* in the ranking, no task that fails a predicate stands before one that
\* passes both
PenalisedLast ==
    \A a, b \in DOMAIN ret.out :
        a < b => ~(~PassesBoth(tasks[ret.out[a]]) /\ PassesBoth(tasks[ret.out[b]]))

----------------------------------------------------------------------------
(* Occurrences in a day *)

Expanding == ret.op = "expand_occurrences"

\* the time from clock a to clock b, in seconds and microseconds
ClockDiff(a, b) ==
    IF b.us < a.us THEN [sec |-> b.sec - a.sec - 1, us |-> b.us - a.us + 1000000]
    ELSE [sec |-> b.sec - a.sec, us |-> b.us - a.us]

\* C25: for a task whose frequency is '<n>x-day' with n >= 1 (and which has
\* no preferred window of its own, which would be returned instead),
\* expand_occurrences returns exactly n time windows of equal length that are
\* contiguous and in order, the first starting at 07:00 and the last ending
\* at 21:00.
C25_EvenSlotsOverTheDay ==
    Expanding =>
        LET task == tasks[ret.input[1]]
            slots == ret.out
        IN \A n \in 1..MaxSlots :
              task.frequency = TimesADay(n) /\ task.preferred_window = NoWindow
              => /\ Len(slots) = n
                 /\ \A k \in DOMAIN slots :
                       ClockDiff(slots[k][1], slots[k][2]) = ClockDiff(slots[1][1], slots[1][2])
                 /\ \A k \in 1..(n - 1) : slots[k][2] = slots[k + 1][1]
                 /\ slots[1][1] = [sec |-> 7 * 3600, us |-> 0]
                 /\ slots[n][2] = [sec |-> 21 * 3600, us |-> 0]

\* the task owner.allows was asked about, and its effective end: the end of
\* the preferred window if there is one, else the deadline, else none
Asked == tasks[ret.input[1]]

EffectiveEnd ==
    IF Asked.preferred_window # NoWindow THEN Asked.preferred_window[2]
    ELSE Asked.deadline_time

GroomingBlocked ==
    /\ "no_grooming_weekdays" \in owner.preferences
    /\ Asked.category = "grooming"
    /\ today % 7 \in 0..4

LateWalkBlocked ==
    /\ "avoid_late_walks" \in owner.preferences
    /\ Asked.category = "walk"
    /\ EffectiveEnd # NoTime
    /\ EffectiveEnd > TS(21, 30, 0)

\* C26: owner.allows(task) returns false exactly when the task is grooming
\* on a weekday under 'no_grooming_weekdays', or a walk whose effective end
\* is later than 21:30 under 'avoid_late_walks'; in every other case it
\* returns true.
C26_AllowsExactlyTheTwoRules ==
    ret.op = "allows" => (ret.out[1] = FALSE <=> (GroomingBlocked \/ LateWalkBlocked))

Explanation == ret.plan.explanation

SummaryLine(kind, n) == [kind |-> kind, count |-> n, task_id |-> <<>>, reason |-> ""]
TaskLine(t, reason) == [kind |-> "-", count |-> 0, task_id |-> tasks[t].task_id, reason |-> reason]

\* C27: the explanation of a plan is empty when the Scheduler's explain flag
\* is off; when it is on it is the line 'Selected k tasks', one line per
\* scheduled task in scheduling order and, only if m > 0 tasks were skipped,
\* the line 'Skipped m tasks:' and one line per skipped task in skip order
\* with the reason of plan['skipped']: 1 + k lines when m = 0, 2 + k + m
\* lines otherwise.
C27_ExplanationLines ==
    Planned =>
       LET k == Len(Scheduled)
           m == Len(Skipped)
       IN IF ~scheduler.explain THEN Explanation = <<>>
          ELSE /\ Len(Explanation) = IF m = 0 THEN 1 + k ELSE 2 + k + m
               /\ Explanation[1] = SummaryLine("Selected", k)
               /\ \A i \in 1..k : Explanation[1 + i] = TaskLine(Scheduled[i].task, "")
               /\ m > 0 =>
                    /\ Explanation[k + 2] = SummaryLine("Skipped", m)
                    /\ \A j \in 1..m :
                          Explanation[k + 2 + j] = TaskLine(Skipped[j].task, Skipped[j].reason)

\* a plan explained with nothing skipped: two tasks scheduled, three lines
C27_Witness ==
    /\ Planned
    /\ scheduler.explain
    /\ Len(Scheduled) = 2
    /\ Skipped = <<>>
    /\ Len(Explanation) = 3

\* what a call of generate_plan gives its caller to see: the ranking it
\* worked from and the plan
Outcome(plan) ==
    [ranked |-> plan.ranked, scheduled |-> plan.scheduled, skipped |-> plan.skipped,
     total_minutes |-> plan.total_minutes, explanation |-> plan.explanation]

PlanOnly(plan) ==
    [scheduled |-> plan.scheduled, skipped |-> plan.skipped,
     total_minutes |-> plan.total_minutes, explanation |-> plan.explanation]

\* the call of c run on its own on a new Scheduler, and run on the Scheduler
\* the call of d has run on before, from start to end
Alone(c) ==
    generate_plan(tasks, owner, pets[calls[c].pet], ListOf(c), today,
                  [scheduler EXCEPT !.score_cache = <<>>])

After(c, d) ==
    generate_plan(tasks, owner, pets[calls[c].pet], ListOf(c), today,
                  [scheduler EXCEPT !.score_cache = Alone(d).cache])

BothDone == \A c \in Callers : calls[c].pc = "done"

\* C28: generate_plan is not safe to run concurrently on one Scheduler: with
\* two calls interleaved between the lookups and stores of get_score_cached
\* and inputs that share a task_id but score differently, some interleaving
\* yields a ranking or plan that neither sequential order of the two calls
\* produces (the state C28_Witness); with two independent Schedulers every
\* interleaving yields, for each call, the ranking and plan of that call run
\* alone.
C28_IndependentSchedulersAgree ==
    (BothDone /\ \E c \in Callers : calls[c].own) =>
        \A c \in Callers : Outcome(calls[c].plan) = Outcome(Alone(c))

\* both calls on the one Scheduler, for a dog and for a cat, and the cat's
\* plan is neither the plan of the cat's call run first nor that of the cat's
\* call run after the dog's
C28_Witness ==
    /\ BothDone
    /\ \A c \in Callers : ~calls[c].own
    /\ calls["a"].pet = "p1"
    /\ calls["b"].pet = "p2"
    /\ PlanOnly(calls["b"].plan) \notin {PlanOnly(Alone("b")), PlanOnly(After("b", "a"))}
    /\ calls["b"].plan.ranked \notin {Alone("b").ranked, After("b", "a").ranked}

====
